---- MODULE Spec2Model ----
(***************************************************************************)
(* Model of the elastic thread pool of src/src/thread_pool.rs.             *)
(*                                                                         *)
(* One pool is constructed (ThreadPool::new / ThreadPool::with_max_threads)*)
(* and shared by a few client threads that call submit and                 *)
(* wait_for_completion; the last owner drops it (impl Drop).  Every access *)
(* to shared memory (an atomic operation or a lock operation) is one step  *)
(* of the thread that performs it.                                         *)
(*                                                                         *)
(* The module also models the doubly linked list of src/src/link_list.rs   *)
(* (LinkedList, its nodes on the heap, CursorMut), which the pool does not *)
(* use: ListSpec drives one list through its operations.                   *)
(***************************************************************************)
EXTENDS Integers, Sequences, FiniteSets, TLC

\* ---------------------------------------------------------------- bounds
\* number of submit calls made during the pool's lifetime
MaxTasks == 2
\* number of client threads sharing the pool
NumClients == 2
\* largest thread cap handed to a constructor (0 is always tried as well)
MaxCap == 2

Clients == 1..NumClients
\* thread ids handed out by next_thread_id: every submit spawns at most one
WorkerIds == 0..(MaxTasks - 1)
TaskIds == 1..MaxTasks
\* value of the queue-lock owner when the mutex is free
Free == -1

\* ----------------------------------------------------- bounds of the list
\* addresses the allocator can hand out: the list holds at most that many
MaxNodes == 3
\* distinct element values
NumElems == 2
\* number of pushes and successful pops in one run
MaxOps == 6

Addr == 1..MaxNodes
Elems == 1..NumElems
\* Link<T> = None
Null == 0
\* Option<T> = None as the result of a pop or of current
NoElem == 0
\* Option<usize> = None as the index of a cursor
Absent == -1

VARIABLES
    life,             \* life cycle of the pool: construction, use, drop
    max_threads,      \* ThreadPool.max_threads
    tasks,            \* ThreadPool.tasks.0: the VecDeque<Task>, front first
    qlock,            \* owner of the Mutex around tasks (a worker id or Free)
    threads,          \* ThreadPool.threads: keys of the HashMap of handles
    threads_locked,   \* Mutex around threads held by drop
    next_thread_id,   \* ThreadPool.next_thread_id
    quit,             \* ThreadPool.quit
    current_threads,  \* ThreadPool.current_threads
    idle_threads,     \* ThreadPool.idle_threads
    active_tasks,     \* ThreadPool.active_tasks
    submitted_tasks,  \* ThreadPool.submitted_tasks
    completed_tasks,  \* ThreadPool.completed_tasks
    wpc,              \* position of each worker thread in its closure
    wtimed,           \* worker local: result.1.timed_out()
    wtask,            \* worker local: task (0 when none)
    cpc,              \* position of each client thread
    ccur,             \* client local: current (try_spawn_thread)
    ctid,             \* client local: thread_id (spawn_thread)
    ctarget,          \* client local: target (wait_for_completion)
    ctask,            \* client local: the task being submitted (0 when none)
    cgot,             \* client local: value a read-only call is returning
    dcur,             \* drop local: handle being joined
    nextTask,         \* history: number of tasks pushed so far
    popped,           \* history: tasks in the order they were popped
    finished,         \* history: tasks whose closure has returned
    returned,         \* history: tasks whose submit call has returned
    wsnap,            \* history: returned, as it was when the wait started
    joins,            \* history: how many times each handle was joined
    regAtDrop,        \* history: the registry as drop found it when it locked it
    anyPanic,         \* history: some task has panicked
    reserved,         \* history: successful exchanges in try_spawn_thread
    inserted,         \* history: handles inserted into the registry
    spawnFailed,      \* history: thread::spawn calls the host refused
    lateTasks,        \* history: tasks popped while quit was set
    list,             \* LinkedList: front, back, len
    mem,              \* the heap: the Node at each address
    cursor,           \* CursorMut borrowed from list: cur, index
    deque,            \* history: the reference double-ended sequence
    result,           \* history: what the last pop returned
    expected,         \* history: what the reference returned for it
    pushes,           \* history: number of pushes
    pops,             \* history: number of pops that returned an element
    moves,            \* history: calls of a cursor moved by move_next only
    lop,              \* history: the last list operation
    allocated,        \* history: Box::new calls that returned each address
    released,         \* history: Box::from_raw drops of each address
    dropped,          \* the list has been torn down
    iter,             \* Iter or IntoIter over list: kind, front, back, len
    ihist,            \* history: what the iterator started on and yielded
    other,            \* a second list, by the elements its iter() yields
    cmpres            \* what eq, cmp and hash returned for list and other

pool == <<life, max_threads, tasks, qlock, threads, threads_locked,
          next_thread_id, quit>>
counters == <<current_threads, idle_threads, active_tasks, submitted_tasks,
              completed_tasks>>
wlocals == <<wpc, wtimed, wtask>>
clocals == <<cpc, ccur, ctid, ctarget, ctask, cgot>>
spawnlog == <<reserved, inserted, spawnFailed>>
history == <<nextTask, popped, finished, returned, wsnap, joins, regAtDrop,
            anyPanic, spawnlog, lateTasks>>
pvars == <<pool, counters, wlocals, clocals, dcur, history>>
lhist == <<deque, result, expected, pushes, pops, moves, lop>>
lext == <<allocated, released, dropped, iter, ihist, other, cmpres>>
lvars == <<list, mem, cursor, lhist, lext>>
vars == <<pvars, lvars>>

\* --------------------------------------------- link_list.rs: operators
\* an address the allocator has not handed out, or has taken back
Unallocated == [live |-> FALSE, front |-> Null, back |-> Null, elem |-> NoElem]

\* Box::new(Node { front: None, back: None, elem })
Node(elem) == [live |-> TRUE, front |-> Null, back |-> Null, elem |-> elem]

\* LinkedList::new()
new == [front |-> Null, back |-> Null, len |-> 0]

\* no cursor borrows the list
NoCursor == [live |-> FALSE, cur |-> Null, index |-> Absent]

\* no iterator borrows or owns the list
NoIter == [kind |-> "none", front |-> Null, back |-> Null, len |-> 0]

\* no iterator has been asked for anything
NoYield == [start |-> <<>>, fwd |-> <<>>, bwd |-> <<>>, res |-> NoElem,
            before |-> Absent, nones |-> 0]

\* no comparison has been made
NoCmp == [eq |-> FALSE, cmp |-> "none", partial_cmp |-> "none", hash |-> <<>>]

\* LinkedList::push_front(elem), the new node being allocated at address n:
\* the list and the heap afterwards
list_push_front(l, m, n, elem) ==
    LET m1 == [m EXCEPT ![n] = Node(elem)]
        old == l.front
    IN  IF old # Null
        THEN [list |-> [l EXCEPT !.front = n, !.len = @ + 1],
              mem |-> [m1 EXCEPT ![old].front = n, ![n].back = old]]
        ELSE [list |-> [l EXCEPT !.back = n, !.front = n, !.len = @ + 1],
              mem |-> m1]

\* a push_back that does not link the new node to the old back node
list_push_back_one_way(l, m, n, elem) ==
    LET m1 == [m EXCEPT ![n] = Node(elem)]
        old == l.back
    IN  IF old # Null
        THEN [list |-> [l EXCEPT !.back = n, !.len = @ + 1],
              mem |-> [m1 EXCEPT ![old].back = n]]
        ELSE [list |-> [l EXCEPT !.front = n, !.back = n, !.len = @ + 1],
              mem |-> m1]

\* LinkedList::push_back(elem), the new node being allocated at address n
list_push_back(l, m, n, elem) ==
    LET m1 == [m EXCEPT ![n] = Node(elem)]
        old == l.back
    IN  IF old # Null
        THEN [list |-> [l EXCEPT !.back = n, !.len = @ + 1],
              mem |-> [m1 EXCEPT ![old].back = n, ![n].front = old]]
        ELSE [list |-> [l EXCEPT !.front = n, !.back = n, !.len = @ + 1],
              mem |-> m1]

\* LinkedList::pop_front(): the list, the heap and the Option returned; the
\* Box of the head node is freed when the closure ends
list_pop_front(l, m) ==
    IF l.front = Null
    THEN [list |-> l, mem |-> m, result |-> NoElem, freed |-> Null]
    ELSE LET node == l.front
             boxed_node == m[node]
             nf == boxed_node.back
             m1 == IF nf # Null THEN [m EXCEPT ![nf].front = Null] ELSE m
         IN  [list |-> [front |-> nf,
                        back |-> IF nf # Null THEN l.back ELSE Null,
                        len |-> l.len - 1],
              mem |-> [m1 EXCEPT ![node] = Unallocated],
              result |-> boxed_node.elem,
              freed |-> node]

\* mutant of list_pop_back: it takes the element from the front
list_pop_back_takes_front(l, m) == list_pop_front(l, m)

\* LinkedList::pop_back()
list_pop_back(l, m) ==
    IF l.back = Null
    THEN [list |-> l, mem |-> m, result |-> NoElem, freed |-> Null]
    ELSE LET node == l.back
             boxed_node == m[node]
             nb == boxed_node.front
             m1 == IF nb # Null THEN [m EXCEPT ![nb].back = Null] ELSE m
         IN  [list |-> [front |-> IF nb # Null THEN l.front ELSE Null,
                        back |-> nb,
                        len |-> l.len - 1],
              mem |-> [m1 EXCEPT ![node] = Unallocated],
              result |-> boxed_node.elem,
              freed |-> node]

\* LinkedList::clear(): while self.pop_front().is_some() {}; the list, the
\* heap and the addresses released, in the order of their release
RECURSIVE list_clear(_, _)
list_clear(l, m) ==
    LET r == list_pop_front(l, m)
    IN  IF r.result = NoElem
        THEN [list |-> r.list, mem |-> r.mem, freed |-> <<>>]
        ELSE LET rest == list_clear(r.list, r.mem)
             IN  [list |-> rest.list,
                  mem |-> rest.mem,
                  freed |-> <<r.freed>> \o rest.freed]

\* the elements l.iter() yields: len steps along the back links from front
RECURSIVE iter_elems(_, _, _)
iter_elems(m, a, n) ==
    IF a = Null \/ n = 0
    THEN <<>>
    ELSE <<m[a].elem>> \o iter_elems(m, m[a].back, n - 1)

\* Iterator::eq of two iterators, given by what they yield: both are advanced
\* together; equal if they end together and never differ
RECURSIVE iter_eq(_, _)
iter_eq(a, b) ==
    IF a = <<>>
    THEN b = <<>>
    ELSE IF b = <<>>
         THEN FALSE
         ELSE Head(a) = Head(b) /\ iter_eq(Tail(a), Tail(b))

\* Iterator::cmp of two iterators, given by what they yield: the first pair of
\* different elements decides; an iterator that ends first is Less
RECURSIVE iter_cmp(_, _)
iter_cmp(a, b) ==
    IF a = <<>>
    THEN (IF b = <<>> THEN "Equal" ELSE "Less")
    ELSE IF b = <<>>
         THEN "Greater"
         ELSE IF Head(a) < Head(b)
              THEN "Less"
              ELSE IF Head(a) > Head(b)
                   THEN "Greater"
                   ELSE iter_cmp(Tail(a), Tail(b))

\* PartialEq::eq of two lists, given by the elements their iter() yields
eq(a, b) == Len(a) = Len(b) /\ iter_eq(a, b)

\* an ordering of lists that looks at the lengths before the elements
cmp_length_first(a, b) ==
    IF Len(a) < Len(b)
    THEN "Less"
    ELSE IF Len(a) > Len(b) THEN "Greater" ELSE iter_cmp(a, b)

\* Ord::cmp of two lists
cmp(a, b) == iter_cmp(a, b)

\* PartialOrd::partial_cmp of two lists of totally ordered elements: Some(..)
partial_cmp(a, b) == iter_cmp(a, b)

\* Hash::hash of a list: what it feeds to the Hasher, in order
hash(a) == <<Len(a)>> \o a

\* a teardown that pops once instead of until the list is empty
list_drop_first_only(l, m) ==
    LET r == list_pop_front(l, m)
    IN  [list |-> r.list,
         mem |-> r.mem,
         freed |-> IF r.freed = Null THEN <<>> ELSE <<r.freed>>]

\* impl Drop for LinkedList: while self.pop_front().is_some() {}; the list,
\* the heap and the addresses released, in the order of their release
RECURSIVE list_drop(_, _)
list_drop(l, m) ==
    LET r == list_pop_front(l, m)
    IN  IF r.result = NoElem
        THEN [list |-> r.list, mem |-> r.mem, freed |-> <<>>]
        ELSE LET rest == list_drop(r.list, r.mem)
             IN  [list |-> rest.list,
                  mem |-> rest.mem,
                  freed |-> <<r.freed>> \o rest.freed]

\* LinkedList::iter()
iter_new(l) ==
    [kind |-> "iter", front |-> l.front, back |-> l.back, len |-> l.len]

\* LinkedList::into_iter(): IntoIter { list: self }
into_iter == [kind |-> "into_iter", front |-> Null, back |-> Null, len |-> 0]

\* Iter::next(): the iterator afterwards and the Option returned
iter_next(it, m) ==
    IF it.len > 0 /\ it.front # Null
    THEN [iter |-> [it EXCEPT !.len = @ - 1, !.front = m[it.front].back],
          result |-> m[it.front].elem]
    ELSE [iter |-> it, result |-> NoElem]

\* an Iter::next_back() that does not count the element it yields
iter_next_back_uncounted(it, m) ==
    IF it.len > 0 /\ it.back # Null
    THEN [iter |-> [it EXCEPT !.back = m[it.back].front],
          result |-> m[it.back].elem]
    ELSE [iter |-> it, result |-> NoElem]

\* Iter::next_back()
iter_next_back(it, m) ==
    IF it.len > 0 /\ it.back # Null
    THEN [iter |-> [it EXCEPT !.len = @ - 1, !.back = m[it.back].front],
          result |-> m[it.back].elem]
    ELSE [iter |-> it, result |-> NoElem]

\* ExactSizeIterator::len() of Iter and of IntoIter
iter_len(it, l) == IF it.kind = "iter" THEN it.len ELSE l.len

\* LinkedList::len()
len(l) == l.len

\* LinkedList::front(): the element of the head node, or None
front(l, m) == IF l.front # Null THEN m[l.front].elem ELSE NoElem

\* LinkedList::cursor_mut()
cursor_mut == [live |-> TRUE, cur |-> Null, index |-> Absent]

\* mutant of move_next: stepping off the back leaves the index as it was
move_next_keeps_index(c, l, m) ==
    IF c.cur # Null
    THEN LET nc == m[c.cur].back
         IN  [c EXCEPT !.cur = nc,
                       !.index = IF nc # Null /\ @ # Absent THEN @ + 1 ELSE @]
    ELSE [c EXCEPT !.cur = l.front,
                   !.index = IF l.front # Null THEN 0 ELSE @]

\* CursorMut::move_next()
move_next(c, l, m) ==
    IF c.cur # Null
    THEN LET nc == m[c.cur].back
         IN  [c EXCEPT !.cur = nc,
                       !.index = IF nc # Null
                                 THEN (IF @ # Absent THEN @ + 1 ELSE Absent)
                                 ELSE Absent]
    ELSE [c EXCEPT !.cur = l.front,
                   !.index = IF l.front # Null THEN 0 ELSE @]

\* CursorMut::move_prev()
move_prev(c, l, m) ==
    IF c.cur # Null
    THEN LET nc == m[c.cur].front
         IN  [c EXCEPT !.cur = nc,
                       !.index = IF nc # Null
                                 THEN (IF @ # Absent THEN @ - 1 ELSE Absent)
                                 ELSE Absent]
    ELSE [c EXCEPT !.cur = l.back,
                   !.index = IF l.back # Null THEN l.len - 1 ELSE @]

\* CursorMut::current()
current(c, m) == IF c.cur # Null THEN m[c.cur].elem ELSE NoElem

\* CursorMut::index()
index(c) == c.index

\* ------------------------------------------------------------- helpers
\* workers blocked in Condvar::wait_timeout
Waiters == {w \in WorkerIds : wpc[w] = "waiting"}

\* a push that keeps only the newest task in the queue
push_back_overwrites(q, t) == <<t>>

\* VecDeque::push_back
push_back(q, t) == Append(q, t)

\* mutant of pop_front: the worker takes the newest task (pop_back)
pop_back_instead(q) == <<q[Len(q)], SubSeq(q, 1, Len(q) - 1)>>

\* mutant of pop_front: the worker reads the front task and leaves it queued
front_left_queued(q) == <<Head(q), q>>

\* VecDeque::pop_front on a non-empty queue: <<element, rest>>
pop_front(q) == <<Head(q), Tail(q)>>

\* mutant of AtCapacity: the cap test is off by one (current > max_threads)
AtCapacityOffByOne(cur) == cur > max_threads

\* try_spawn_thread: "current >= self.max_threads"
AtCapacity(cur) == cur >= max_threads

\* ---------------------------------------------------------------- Init
Init ==
    /\ life = "unbuilt"
    /\ max_threads = 0
    /\ tasks = <<>>
    /\ qlock = Free
    /\ threads = {}
    /\ threads_locked = FALSE
    /\ next_thread_id = 0
    /\ quit = FALSE
    /\ current_threads = 0
    /\ idle_threads = 0
    /\ active_tasks = 0
    /\ submitted_tasks = 0
    /\ completed_tasks = 0
    /\ wpc = [w \in WorkerIds |-> "none"]
    /\ wtimed = [w \in WorkerIds |-> FALSE]
    /\ wtask = [w \in WorkerIds |-> 0]
    /\ cpc = [c \in Clients |-> "idle"]
    /\ ccur = [c \in Clients |-> 0]
    /\ ctid = [c \in Clients |-> 0]
    /\ ctarget = [c \in Clients |-> 0]
    /\ ctask = [c \in Clients |-> 0]
    /\ cgot = [c \in Clients |-> 0]
    /\ dcur = 0
    /\ nextTask = 0
    /\ popped = <<>>
    /\ finished = {}
    /\ returned = {}
    /\ wsnap = [c \in Clients |-> {}]
    /\ joins = [w \in WorkerIds |-> 0]
    /\ regAtDrop = {}
    /\ anyPanic = FALSE
    /\ reserved = 0
    /\ inserted = 0
    /\ spawnFailed = 0
    /\ lateTasks = {}
    /\ list = new
    /\ mem = [a \in Addr |-> Unallocated]
    /\ cursor = NoCursor
    /\ deque = <<>>
    /\ result = NoElem
    /\ expected = NoElem
    /\ pushes = 0
    /\ pops = 0
    /\ moves = 0
    /\ lop = "new"
    /\ allocated = [a \in Addr |-> 0]
    /\ released = [a \in Addr |-> 0]
    /\ dropped = FALSE
    /\ iter = NoIter
    /\ ihist = NoYield
    /\ other = <<>>
    /\ cmpres = NoCmp

\* -------------------------------------------------------- construction
\* ThreadPool::with_max_threads(n): builds the pool, whatever n is
with_max_threads(n) ==
    /\ max_threads' = n
    /\ life' = "alive"
    /\ UNCHANGED <<tasks, qlock, threads, threads_locked, next_thread_id,
                   quit, counters, wlocals, clocals, dcur, history>>
    /\ UNCHANGED lvars

\* ThreadPool::new(Some(n)): assert!(threads > 0), then with_max_threads
NewSome(n) ==
    /\ life = "unbuilt"
    /\ IF n > 0
       THEN with_max_threads(n)
       ELSE /\ life' = "ctor_panic"
            /\ UNCHANGED <<max_threads, tasks, qlock, threads, threads_locked,
                           next_thread_id, quit, counters, wlocals, clocals,
                           dcur, history>>
    /\ UNCHANGED lvars

\* ThreadPool::new(None): get_cpu_count() is a NonZeroUsize (or 4)
NewNone(n) ==
    /\ life = "unbuilt"
    /\ n > 0
    /\ with_max_threads(n)

\* a direct call of the public ThreadPool::with_max_threads(n)
WithMaxThreads(n) ==
    /\ life = "unbuilt"
    /\ with_max_threads(n)

\* ------------------------------------------------------------- submit
\* a client may start a call only on a live pool that nobody is dropping;
\* idle clients hold no state and are interchangeable, so the next call is
\* made by the lowest-numbered idle one
CanCall(c) ==
    /\ life = "alive"
    /\ cpc[c] = "idle"
    /\ \A d \in Clients : d < c => cpc[d] # "idle"

\* the submit call of client c returns
SubmitReturns(c) ==
    /\ cpc' = [cpc EXCEPT ![c] = "idle"]
    /\ returned' = returned \cup {ctask[c]}
    /\ ctask' = [ctask EXCEPT ![c] = 0]
    /\ ccur' = [ccur EXCEPT ![c] = 0]
    /\ ctid' = [ctid EXCEPT ![c] = 0]

\* submit: lock tasks, push_back(task), unlock
SubmitPush(c) ==
    /\ CanCall(c)
    /\ nextTask < MaxTasks
    /\ qlock = Free
    /\ tasks' = push_back(tasks, nextTask + 1)
    /\ nextTask' = nextTask + 1
    /\ ctask' = [ctask EXCEPT ![c] = nextTask + 1]
    /\ cpc' = [cpc EXCEPT ![c] = "s_inc"]
    /\ UNCHANGED <<life, max_threads, qlock, threads, threads_locked,
                   next_thread_id, quit, counters, wlocals, ccur, ctid,
                   ctarget, dcur, popped, finished, returned, wsnap, joins,
                   regAtDrop, anyPanic, spawnlog, lateTasks>>
    /\ UNCHANGED <<cgot, lvars>>

\* submit: submitted_tasks.fetch_add(1)
SubmitCount(c) ==
    /\ cpc[c] = "s_inc"
    /\ submitted_tasks' = submitted_tasks + 1
    /\ cpc' = [cpc EXCEPT ![c] = "s_notify"]
    /\ UNCHANGED <<pool, current_threads, idle_threads, active_tasks,
                   completed_tasks, wlocals, ccur, ctid, ctarget, ctask, dcur,
                   history>>
    /\ UNCHANGED <<cgot, lvars>>

\* submit: tasks.1.notify_one() wakes one blocked waiter, if there is one
SubmitNotify(c) ==
    /\ cpc[c] = "s_notify"
    /\ IF Waiters = {}
       THEN UNCHANGED wpc
       ELSE \E w \in Waiters : wpc' = [wpc EXCEPT ![w] = "relock"]
    /\ cpc' = [cpc EXCEPT ![c] = "s_idle"]
    /\ UNCHANGED <<pool, counters, wtimed, wtask, ccur, ctid, ctarget, ctask,
                   dcur, history>>
    /\ UNCHANGED <<cgot, lvars>>

\* mutant of SubmitIdleCheck: try_spawn_thread is called whatever is idle
SubmitIdleCheckAlwaysSpawns(c) ==
    /\ cpc[c] = "s_idle"
    /\ cpc' = [cpc EXCEPT ![c] = "s_load"]
    /\ UNCHANGED <<pool, counters, wlocals, ccur, ctid, ctarget, ctask, dcur,
                   history>>
    /\ UNCHANGED <<cgot, lvars>>

\* submit: if idle_threads.load() == 0 { try_spawn_thread() }
SubmitIdleCheck(c) ==
    /\ cpc[c] = "s_idle"
    /\ IF idle_threads = 0
       THEN /\ cpc' = [cpc EXCEPT ![c] = "s_load"]
            /\ UNCHANGED <<returned, ctask, ccur, ctid>>
       ELSE SubmitReturns(c)
    /\ UNCHANGED <<pool, counters, wlocals, ctarget, dcur,
                   nextTask, popped, finished, wsnap, joins, regAtDrop,
                   anyPanic, spawnlog, lateTasks>>
    /\ UNCHANGED <<cgot, lvars>>

\* try_spawn_thread: current = current_threads.load(); return false at the cap
SpawnLoad(c) ==
    /\ cpc[c] = "s_load"
    /\ IF AtCapacity(current_threads)
       THEN SubmitReturns(c)
       ELSE /\ ccur' = [ccur EXCEPT ![c] = current_threads]
            /\ cpc' = [cpc EXCEPT ![c] = "s_cas"]
            /\ UNCHANGED <<returned, ctask, ctid>>
    /\ UNCHANGED <<pool, counters, wlocals, ctarget, dcur, nextTask,
                   popped, finished, wsnap, joins, regAtDrop,
                   anyPanic, spawnlog, lateTasks>>
    /\ UNCHANGED <<cgot, lvars>>

\* try_spawn_thread: compare_exchange_weak(current, current + 1) succeeds
SpawnCasOk(c) ==
    /\ cpc[c] = "s_cas"
    /\ current_threads = ccur[c]
    /\ current_threads' = ccur[c] + 1
    /\ reserved' = reserved + 1
    /\ cpc' = [cpc EXCEPT ![c] = "s_id"]
    /\ UNCHANGED <<pool, idle_threads, active_tasks, submitted_tasks,
                   completed_tasks, wlocals, ccur, ctid, ctarget, ctask, dcur,
                   nextTask, popped, finished, returned, wsnap, joins,
                   regAtDrop, anyPanic, inserted, spawnFailed, lateTasks>>
    /\ UNCHANGED <<cgot, lvars>>

\* mutant of SpawnCasStale: the failed exchange is taken for a success and
\* spawn_thread is called
SpawnCasStaleSpawns(c) ==
    /\ cpc[c] = "s_cas"
    /\ current_threads # ccur[c]
    /\ cpc' = [cpc EXCEPT ![c] = "s_id"]
    /\ UNCHANGED <<pool, counters, wlocals, ccur, ctid, ctarget, ctask, dcur,
                   history>>
    /\ UNCHANGED <<cgot, lvars>>

\* try_spawn_thread: the exchange fails on a changed value; Err(_) => continue
SpawnCasStale(c) ==
    /\ cpc[c] = "s_cas"
    /\ current_threads # ccur[c]
    /\ cpc' = [cpc EXCEPT ![c] = "s_load"]
    /\ UNCHANGED <<pool, counters, wlocals, ccur, ctid, ctarget, ctask, dcur,
                   history>>
    /\ UNCHANGED <<cgot, lvars>>

\* try_spawn_thread: the weak exchange fails spuriously; Err(_) => continue
SpawnCasSpurious(c) ==
    /\ cpc[c] = "s_cas"
    /\ current_threads = ccur[c]
    /\ cpc' = [cpc EXCEPT ![c] = "s_load"]
    /\ UNCHANGED <<pool, counters, wlocals, ccur, ctid, ctarget, ctask, dcur,
                   history>>
    /\ UNCHANGED <<cgot, lvars>>

\* mutant of SpawnId: the id is read with a load and not advanced
SpawnIdLoadOnly(c) ==
    /\ cpc[c] = "s_id"
    /\ ctid' = [ctid EXCEPT ![c] = next_thread_id]
    /\ cpc' = [cpc EXCEPT ![c] = "s_spawn"]
    /\ UNCHANGED <<pool, counters, wlocals, ccur, ctarget, ctask, dcur,
                   history>>
    /\ UNCHANGED <<cgot, lvars>>

\* spawn_thread: thread_id = next_thread_id.fetch_add(1)
SpawnId(c) ==
    /\ cpc[c] = "s_id"
    /\ ctid' = [ctid EXCEPT ![c] = next_thread_id]
    /\ next_thread_id' = next_thread_id + 1
    /\ cpc' = [cpc EXCEPT ![c] = "s_spawn"]
    /\ UNCHANGED <<life, max_threads, tasks, qlock, threads,
                   threads_locked, quit, counters, wlocals, ccur, ctarget,
                   ctask, dcur, history>>
    /\ UNCHANGED <<cgot, lvars>>

\* spawn_thread: thread::spawn(closure): the worker starts at the top of its loop
SpawnThread(c) ==
    /\ cpc[c] = "s_spawn"
    /\ wpc' = [wpc EXCEPT ![ctid[c]] = "lock"]
    /\ cpc' = [cpc EXCEPT ![c] = "s_insert"]
    /\ UNCHANGED <<pool, counters, wtimed, wtask, ccur, ctid, ctarget, ctask,
                   dcur, history>>
    /\ UNCHANGED <<cgot, lvars>>

\* spawn_thread: thread::spawn panics because the host refuses to create a
\* thread; the panic unwinds spawn_thread, try_spawn_thread and submit, which
\* hold no guard and undo nothing: no worker exists, no handle is inserted,
\* the slot taken by the exchange stays taken.  The caller is out of the call.
SpawnThreadFails(c) ==
    /\ cpc[c] = "s_spawn"
    /\ spawnFailed' = spawnFailed + 1
    /\ cpc' = [cpc EXCEPT ![c] = "idle"]
    /\ ctask' = [ctask EXCEPT ![c] = 0]
    /\ ccur' = [ccur EXCEPT ![c] = 0]
    /\ ctid' = [ctid EXCEPT ![c] = 0]
    /\ UNCHANGED <<pool, counters, wlocals, ctarget, dcur, nextTask, popped,
                   finished, returned, wsnap, joins, regAtDrop, anyPanic,
                   reserved, inserted, lateTasks>>
    /\ UNCHANGED <<cgot, lvars>>

\* spawn_thread: threads.lock().insert(thread_id, handle); submit returns
SpawnInsert(c) ==
    /\ cpc[c] = "s_insert"
    /\ ~threads_locked
    /\ threads' = threads \cup {ctid[c]}
    /\ inserted' = inserted + 1
    /\ SubmitReturns(c)
    /\ UNCHANGED <<life, max_threads, tasks, qlock, threads_locked,
                   next_thread_id, quit, counters, wlocals,
                   ctarget, dcur, nextTask, popped, finished, wsnap, joins,
                   regAtDrop, anyPanic, reserved, spawnFailed, lateTasks>>
    /\ UNCHANGED <<cgot, lvars>>

\* ------------------------------------------------ wait_for_completion
\* wait_for_completion: target = submitted_tasks.load()
WaitSnapshot(c) ==
    /\ CanCall(c)
    /\ ctarget' = [ctarget EXCEPT ![c] = submitted_tasks]
    /\ wsnap' = [wsnap EXCEPT ![c] = returned]
    /\ cpc' = [cpc EXCEPT ![c] = "w_poll"]
    /\ UNCHANGED <<pool, counters, wlocals, ccur, ctid, ctask, dcur, nextTask,
                   popped, finished, returned, joins, regAtDrop, anyPanic,
                   spawnlog, lateTasks>>
    /\ UNCHANGED <<cgot, lvars>>

\* mutant of WaitPoll: the loop compares with the live submitted_tasks
WaitPollLiveCount(c) ==
    /\ cpc[c] = "w_poll"
    /\ ~(completed_tasks < submitted_tasks)
    /\ cpc' = [cpc EXCEPT ![c] = "w_ret"]
    /\ UNCHANGED <<pool, counters, wlocals, ccur, ctid, ctarget, ctask, dcur,
                   history>>
    /\ UNCHANGED <<cgot, lvars>>

\* wait_for_completion: the loop ends once completed_tasks.load() >= target
WaitPoll(c) ==
    /\ cpc[c] = "w_poll"
    /\ ~(completed_tasks < ctarget[c])
    /\ cpc' = [cpc EXCEPT ![c] = "w_ret"]
    /\ UNCHANGED <<pool, counters, wlocals, ccur, ctid, ctarget, ctask, dcur,
                   history>>
    /\ UNCHANGED <<cgot, lvars>>

\* wait_for_completion has returned; the caller goes on
WaitReturn(c) ==
    /\ cpc[c] = "w_ret"
    /\ cpc' = [cpc EXCEPT ![c] = "idle"]
    /\ ctarget' = [ctarget EXCEPT ![c] = 0]
    /\ wsnap' = [wsnap EXCEPT ![c] = {}]
    /\ UNCHANGED <<pool, counters, wlocals, ccur, ctid, ctask, dcur, nextTask,
                   popped, finished, returned, joins, regAtDrop, anyPanic,
                   spawnlog, lateTasks>>
    /\ UNCHANGED <<cgot, lvars>>

\* ------------------------------------------------------ read-only calls
\* threads_num: current_threads.load()
ThreadsNum(c) ==
    /\ CanCall(c)
    /\ cgot' = [cgot EXCEPT ![c] = current_threads]
    /\ cpc' = [cpc EXCEPT ![c] = "n_ret"]
    /\ UNCHANGED <<pool, counters, wlocals, ccur, ctid, ctarget, ctask, dcur,
                   history>>
    /\ UNCHANGED lvars

\* get_max_threads: self.max_threads
GetMaxThreads(c) ==
    /\ CanCall(c)
    /\ cgot' = [cgot EXCEPT ![c] = max_threads]
    /\ cpc' = [cpc EXCEPT ![c] = "m_ret"]
    /\ UNCHANGED <<pool, counters, wlocals, ccur, ctid, ctarget, ctask, dcur,
                   history>>
    /\ UNCHANGED lvars

\* threads_num or get_max_threads has returned; the caller goes on
ReadReturn(c) ==
    /\ cpc[c] \in {"n_ret", "m_ret"}
    /\ cgot' = [cgot EXCEPT ![c] = 0]
    /\ cpc' = [cpc EXCEPT ![c] = "idle"]
    /\ UNCHANGED <<pool, counters, wlocals, ccur, ctid, ctarget, ctask, dcur,
                   history>>
    /\ UNCHANGED lvars

\* -------------------------------------------------------------- worker
\* the worker's pc moves to p
Goto(w, p) == wpc' = [wpc EXCEPT ![w] = p]

\* loop top: task_queue = lock.lock()
WorkerLock(w) ==
    /\ wpc[w] = "lock"
    /\ qlock = Free
    /\ qlock' = w
    /\ Goto(w, "idle_inc")
    /\ UNCHANGED <<life, max_threads, tasks, threads, threads_locked,
                   next_thread_id, quit, counters, wtimed, wtask, clocals,
                   dcur, history>>
    /\ UNCHANGED lvars

\* idle_threads.fetch_add(1)
WorkerIdleInc(w) ==
    /\ wpc[w] = "idle_inc"
    /\ idle_threads' = idle_threads + 1
    /\ Goto(w, "check")
    /\ UNCHANGED <<pool, current_threads, active_tasks, submitted_tasks,
                   completed_tasks, wtimed, wtask, clocals, dcur, history>>
    /\ UNCHANGED lvars

\* while task_queue.is_empty() && !quit.load()
WorkerCheck(w) ==
    /\ wpc[w] = "check"
    /\ IF tasks = <<>> /\ ~quit
       THEN Goto(w, "wait")
       ELSE Goto(w, "idle_dec")
    /\ UNCHANGED <<pool, counters, wtimed, wtask, clocals, dcur, history>>
    /\ UNCHANGED lvars

\* cvar.wait_timeout(task_queue, 10 s): unlock and block, atomically
WorkerWait(w) ==
    /\ wpc[w] = "wait"
    /\ qlock' = Free
    /\ Goto(w, "waiting")
    /\ UNCHANGED <<life, max_threads, tasks, threads, threads_locked,
                   next_thread_id, quit, counters, wtimed, wtask, clocals,
                   dcur, history>>
    /\ UNCHANGED lvars

\* the 10 seconds of wait_timeout elapse
WorkerTimeout(w) ==
    /\ wpc[w] = "waiting"
    /\ wtimed' = [wtimed EXCEPT ![w] = TRUE]
    /\ Goto(w, "relock")
    /\ UNCHANGED <<pool, counters, wtask, clocals, dcur, history>>
    /\ UNCHANGED lvars

\* wait_timeout wakes spuriously, which Condvar allows
WorkerSpuriousWake(w) ==
    /\ wpc[w] = "waiting"
    /\ Goto(w, "relock")
    /\ UNCHANGED <<pool, counters, wtimed, wtask, clocals, dcur, history>>
    /\ UNCHANGED lvars

\* wait_timeout re-acquires the mutex and returns; if result.1.timed_out()
WorkerRelock(w) ==
    /\ wpc[w] = "relock"
    /\ qlock = Free
    /\ qlock' = w
    /\ IF wtimed[w] THEN Goto(w, "t_idle_dec") ELSE Goto(w, "check")
    /\ wtimed' = [wtimed EXCEPT ![w] = FALSE]
    /\ UNCHANGED <<life, max_threads, tasks, threads, threads_locked,
                   next_thread_id, quit, counters, wtask, clocals, dcur,
                   history>>
    /\ UNCHANGED lvars

\* mutant of WorkerTimeoutIdleDec: the timeout path forgets idle_threads
WorkerTimeoutIdleDecSkipped(w) ==
    /\ wpc[w] = "t_idle_dec"
    /\ Goto(w, "t_cur_dec")
    /\ UNCHANGED <<pool, counters, wtimed, wtask, clocals, dcur, history>>
    /\ UNCHANGED lvars

\* timed out: idle_threads.fetch_sub(1)
WorkerTimeoutIdleDec(w) ==
    /\ wpc[w] = "t_idle_dec"
    /\ idle_threads' = idle_threads - 1
    /\ Goto(w, "t_cur_dec")
    /\ UNCHANGED <<pool, current_threads, active_tasks, submitted_tasks,
                   completed_tasks, wtimed, wtask, clocals, dcur, history>>
    /\ UNCHANGED lvars

\* timed out: current_threads.fetch_sub(1)
WorkerTimeoutCurDec(w) ==
    /\ wpc[w] = "t_cur_dec"
    /\ current_threads' = current_threads - 1
    /\ Goto(w, "t_remove")
    /\ UNCHANGED <<pool, idle_threads, active_tasks, submitted_tasks,
                   completed_tasks, wtimed, wtask, clocals, dcur, history>>
    /\ UNCHANGED lvars

\* some other thread is inside its short critical section on threads
\* (another retiring worker's remove, a submitter's insert)
ThreadsBusy(w) ==
    \/ \E v \in WorkerIds \ {w} : wpc[v] \in {"t_remove", "q_remove"}
    \/ \E c \in Clients : cpc[c] = "s_insert"

\* mutant of TryRemove: the worker takes the registry lock with a blocking
\* lock() instead of try_lock()
TryRemoveBlocking(w) ==
    /\ ~threads_locked
    /\ threads' = threads \ {w}
    /\ UNCHANGED <<life, max_threads, tasks, qlock, threads_locked,
                   next_thread_id, quit, counters, wtimed, wtask, clocals,
                   dcur, history>>
    /\ UNCHANGED lvars

\* if let Ok(mut threads) = threads.try_lock() { threads.remove(&thread_id) }:
\* the registry guard is dropped at the end of the if-let; the worker still
\* holds the queue guard
TryRemove(w) ==
    /\ \/ /\ ~threads_locked
          /\ threads' = threads \ {w}
       \/ /\ threads_locked \/ ThreadsBusy(w)
          /\ threads' = threads
    /\ UNCHANGED <<life, max_threads, tasks, qlock, threads_locked,
                   next_thread_id, quit, counters, wtimed, wtask, clocals,
                   dcur, history>>
    /\ UNCHANGED lvars

\* return from the closure: the queue guard is dropped; the thread is still
\* alive
Return(w) ==
    /\ qlock' = Free
    /\ Goto(w, "ending")
    /\ UNCHANGED <<life, max_threads, tasks, threads, threads_locked,
                   next_thread_id, quit, counters, wtimed, wtask, clocals,
                   dcur, history>>
    /\ UNCHANGED lvars

\* timed out: best-effort removal from the registry
WorkerTimeoutRemove(w) ==
    /\ wpc[w] = "t_remove"
    /\ Goto(w, "t_ret")
    /\ TryRemove(w)

\* timed out: return
WorkerTimeoutReturn(w) ==
    /\ wpc[w] = "t_ret"
    /\ Return(w)

\* left the wait loop: idle_threads.fetch_sub(1)
WorkerIdleDec(w) ==
    /\ wpc[w] = "idle_dec"
    /\ idle_threads' = idle_threads - 1
    /\ Goto(w, "check_quit")
    /\ UNCHANGED <<pool, current_threads, active_tasks, submitted_tasks,
                   completed_tasks, wtimed, wtask, clocals, dcur, history>>
    /\ UNCHANGED lvars

\* mutant of WorkerCheckQuit: the worker retires on quit whatever is queued
WorkerCheckQuitIgnoresQueue(w) ==
    /\ wpc[w] = "check_quit"
    /\ IF quit
       THEN Goto(w, "q_cur_dec")
       ELSE Goto(w, "pop")
    /\ UNCHANGED <<pool, counters, wtimed, wtask, clocals, dcur, history>>
    /\ UNCHANGED lvars

\* if quit.load() && task_queue.is_empty()
WorkerCheckQuit(w) ==
    /\ wpc[w] = "check_quit"
    /\ IF quit /\ tasks = <<>>
       THEN Goto(w, "q_cur_dec")
       ELSE Goto(w, "pop")
    /\ UNCHANGED <<pool, counters, wtimed, wtask, clocals, dcur, history>>
    /\ UNCHANGED lvars

\* quit: current_threads.fetch_sub(1)
WorkerQuitCurDec(w) ==
    /\ wpc[w] = "q_cur_dec"
    /\ current_threads' = current_threads - 1
    /\ Goto(w, "q_remove")
    /\ UNCHANGED <<pool, idle_threads, active_tasks, submitted_tasks,
                   completed_tasks, wtimed, wtask, clocals, dcur, history>>
    /\ UNCHANGED lvars

\* quit: best-effort removal from the registry
WorkerQuitRemove(w) ==
    /\ wpc[w] = "q_remove"
    /\ Goto(w, "q_ret")
    /\ TryRemove(w)

\* quit: return
WorkerQuitReturn(w) ==
    /\ wpc[w] = "q_ret"
    /\ Return(w)

\* the closure has returned: its captures are dropped and the thread ends; a
\* join on its handle can return from now on
WorkerEnd(w) ==
    /\ wpc[w] = "ending"
    /\ Goto(w, "done")
    /\ UNCHANGED <<pool, counters, wtimed, wtask, clocals, dcur, history>>
    /\ UNCHANGED lvars

\* task = task_queue.pop_front().expect(..); the guard is dropped
WorkerPop(w) ==
    /\ wpc[w] = "pop"
    /\ IF tasks = <<>>
       THEN /\ Goto(w, "panicked")
            /\ UNCHANGED <<tasks, wtask, popped, lateTasks>>
       ELSE /\ wtask' = [wtask EXCEPT ![w] = pop_front(tasks)[1]]
            /\ tasks' = pop_front(tasks)[2]
            /\ popped' = Append(popped, pop_front(tasks)[1])
            /\ lateTasks' = IF quit
                            THEN lateTasks \cup {pop_front(tasks)[1]}
                            ELSE lateTasks
            /\ Goto(w, "act_inc")
    /\ qlock' = Free
    /\ UNCHANGED <<life, max_threads, threads, threads_locked,
                   next_thread_id, quit, counters, wtimed, clocals, dcur,
                   nextTask, finished, returned, wsnap, joins, regAtDrop,
                   anyPanic, spawnlog>>
    /\ UNCHANGED lvars

\* active_tasks.fetch_add(1)
WorkerActiveInc(w) ==
    /\ wpc[w] = "act_inc"
    /\ active_tasks' = active_tasks + 1
    /\ Goto(w, "run")
    /\ UNCHANGED <<pool, current_threads, idle_threads, submitted_tasks,
                   completed_tasks, wtimed, wtask, clocals, dcur, history>>
    /\ UNCHANGED lvars

\* task(): the closure runs and returns
WorkerRun(w) ==
    /\ wpc[w] = "run"
    /\ finished' = finished \cup {wtask[w]}
    /\ Goto(w, "act_dec")
    /\ UNCHANGED <<pool, counters, wtimed, wtask, clocals, dcur, nextTask,
                   popped, returned, wsnap, joins, regAtDrop,
                   anyPanic, spawnlog, lateTasks>>
    /\ UNCHANGED lvars

\* task(): the closure panics; nothing catches it, the thread unwinds and ends
WorkerRunPanic(w) ==
    /\ wpc[w] = "run"
    /\ anyPanic' = TRUE
    /\ wtask' = [wtask EXCEPT ![w] = 0]
    /\ Goto(w, "panicked")
    /\ UNCHANGED <<pool, counters, wtimed, clocals, dcur, nextTask, popped,
                   finished, returned, wsnap, joins, regAtDrop,
                   spawnlog, lateTasks>>
    /\ UNCHANGED lvars

\* a worker that does not take its finished task out of active_tasks
WorkerActiveDecSkipped(w) ==
    /\ wpc[w] = "act_dec"
    /\ Goto(w, "comp_inc")
    /\ UNCHANGED <<pool, counters, wtimed, wtask, clocals, dcur, history>>
    /\ UNCHANGED lvars

\* active_tasks.fetch_sub(1)
WorkerActiveDec(w) ==
    /\ wpc[w] = "act_dec"
    /\ active_tasks' = active_tasks - 1
    /\ Goto(w, "comp_inc")
    /\ UNCHANGED <<pool, current_threads, idle_threads, submitted_tasks,
                   completed_tasks, wtimed, wtask, clocals, dcur, history>>
    /\ UNCHANGED lvars

\* a worker that counts a finished task with fetch_sub instead of fetch_add
WorkerCompletedFetchSub(w) ==
    /\ wpc[w] = "comp_inc"
    /\ completed_tasks' = completed_tasks - 1
    /\ wtask' = [wtask EXCEPT ![w] = 0]
    /\ Goto(w, "lock")
    /\ UNCHANGED <<pool, current_threads, idle_threads, active_tasks,
                   submitted_tasks, wtimed, clocals, dcur, history>>
    /\ UNCHANGED lvars

\* completed_tasks.fetch_add(1); back to the top of the loop
WorkerCompleted(w) ==
    /\ wpc[w] = "comp_inc"
    /\ completed_tasks' = completed_tasks + 1
    /\ wtask' = [wtask EXCEPT ![w] = 0]
    /\ Goto(w, "lock")
    /\ UNCHANGED <<pool, current_threads, idle_threads, active_tasks,
                   submitted_tasks, wtimed, clocals, dcur, history>>
    /\ UNCHANGED lvars

\* ---------------------------------------------------------------- drop
\* drop needs &mut self: no client is inside a call on the pool
DropQuit ==
    /\ life = "alive"
    /\ \A c \in Clients : cpc[c] = "idle"
    /\ quit' = TRUE
    /\ life' = "d_notify"
    /\ UNCHANGED <<max_threads, tasks, qlock, threads, threads_locked,
                   next_thread_id, counters, wlocals, clocals, dcur, history>>
    /\ UNCHANGED lvars

\* drop: tasks.1.notify_all() wakes every blocked waiter
DropNotifyAll ==
    /\ life = "d_notify"
    /\ wpc' = [w \in WorkerIds |->
                 IF wpc[w] = "waiting" THEN "relock" ELSE wpc[w]]
    /\ life' = "d_lock"
    /\ UNCHANGED <<max_threads, tasks, qlock, threads, threads_locked,
                   next_thread_id, quit, counters, wtimed, wtask, clocals,
                   dcur, history>>
    /\ UNCHANGED lvars

\* drop: threads = self.threads.lock()
DropLock ==
    /\ life = "d_lock"
    /\ ~threads_locked
    /\ threads_locked' = TRUE
    /\ regAtDrop' = threads
    /\ life' = "d_drain"
    /\ UNCHANGED <<max_threads, tasks, qlock, threads, next_thread_id,
                   quit, counters, wlocals, clocals, dcur, nextTask, popped,
                   finished, returned, wsnap, joins, anyPanic,
                   spawnlog, lateTasks>>
    /\ UNCHANGED lvars

\* drop: the drain iterator yields the next handle, in HashMap order, or ends;
\* the registry guard lives on to the end of drop
DropDrainNext ==
    /\ life = "d_drain"
    /\ IF threads = {}
       THEN /\ life' = "d_active"
            /\ UNCHANGED <<threads, dcur>>
       ELSE /\ \E h \in threads :
                  /\ dcur' = h
                  /\ threads' = threads \ {h}
            /\ life' = "d_join"
    /\ UNCHANGED <<max_threads, tasks, qlock, threads_locked, next_thread_id,
                   quit,
                   counters, wlocals, clocals, history>>
    /\ UNCHANGED lvars

\* drop: handle.join().expect("Thread join failed") blocks until the thread
\* has ended; a thread that ended by a panic makes join return Err and the
\* expect panic, which unwinds drop (the guard and the drain are dropped)
DropJoin ==
    /\ life = "d_join"
    /\ wpc[dcur] \in {"done", "panicked"}
    /\ joins' = [joins EXCEPT ![dcur] = @ + 1]
    /\ IF wpc[dcur] = "done"
       THEN /\ life' = "d_drain"
            /\ UNCHANGED <<threads, threads_locked>>
       ELSE /\ life' = "d_panic"
            /\ threads' = {}
            /\ threads_locked' = FALSE
    /\ dcur' = 0
    /\ UNCHANGED <<max_threads, tasks, qlock, next_thread_id, quit,
                   counters, wlocals, clocals, nextTask, popped, finished,
                   returned, wsnap, regAtDrop, anyPanic, spawnlog, lateTasks>>
    /\ UNCHANGED lvars

\* drop: while active_tasks.load() > 0 { yield_now() }; drop returns and
\* the registry guard is dropped
DropActiveWait ==
    /\ life = "d_active"
    /\ ~(active_tasks > 0)
    /\ life' = "d_done"
    /\ threads_locked' = FALSE
    /\ UNCHANGED <<max_threads, tasks, qlock, threads, next_thread_id, quit,
                   counters, wlocals, clocals, dcur, history>>
    /\ UNCHANGED lvars

\* ------------------------------------------------------- specification
Construct ==
    \/ \E n \in 0..MaxCap : NewSome(n)
    \/ \E n \in 1..MaxCap : NewNone(n)
    \/ \E n \in 0..MaxCap : WithMaxThreads(n)

ClientStep(c) ==
    \/ SubmitPush(c)
    \/ SubmitCount(c)
    \/ SubmitNotify(c)
    \/ SubmitIdleCheck(c)
    \/ SpawnLoad(c)
    \/ SpawnCasOk(c)
    \/ SpawnCasStale(c)
    \/ SpawnCasSpurious(c)
    \/ SpawnId(c)
    \/ SpawnThread(c)
    \/ SpawnThreadFails(c)
    \/ SpawnInsert(c)
    \/ WaitSnapshot(c)
    \/ WaitPoll(c)
    \/ WaitReturn(c)
    \/ ThreadsNum(c)
    \/ GetMaxThreads(c)
    \/ ReadReturn(c)

\* the steps of a worker whose task does not panic
WorkerStep(w) ==
    \/ WorkerLock(w)
    \/ WorkerIdleInc(w)
    \/ WorkerCheck(w)
    \/ WorkerWait(w)
    \/ WorkerTimeout(w)
    \/ WorkerSpuriousWake(w)
    \/ WorkerRelock(w)
    \/ WorkerTimeoutIdleDec(w)
    \/ WorkerTimeoutCurDec(w)
    \/ WorkerTimeoutRemove(w)
    \/ WorkerTimeoutReturn(w)
    \/ WorkerIdleDec(w)
    \/ WorkerCheckQuit(w)
    \/ WorkerQuitCurDec(w)
    \/ WorkerQuitRemove(w)
    \/ WorkerQuitReturn(w)
    \/ WorkerEnd(w)
    \/ WorkerPop(w)
    \/ WorkerActiveInc(w)
    \/ WorkerRun(w)
    \/ WorkerActiveDec(w)
    \/ WorkerCompleted(w)

DropStep ==
    \/ DropQuit
    \/ DropNotifyAll
    \/ DropLock
    \/ DropDrainNext
    \/ DropJoin
    \/ DropActiveWait

Next ==
    \/ Construct
    \/ \E c \in Clients : ClientStep(c)
    \/ \E w \in WorkerIds : WorkerStep(w)
    \/ \E w \in WorkerIds : WorkerRunPanic(w)
    \/ DropStep

Spec == Init /\ [][Next]_vars

\* the steps of a run in which no task panics
NextFair ==
    \/ Construct
    \/ \E c \in Clients : ClientStep(c)
    \/ \E w \in WorkerIds : WorkerStep(w)
    \/ DropStep

\* the steps a client takes inside a call it has started
ClientProgress(c) ==
    \/ SubmitCount(c)
    \/ SubmitNotify(c)
    \/ SubmitIdleCheck(c)
    \/ SpawnLoad(c)
    \/ SpawnCasOk(c)
    \/ SpawnCasStale(c)
    \/ SpawnId(c)
    \/ SpawnThread(c)
    \/ SpawnInsert(c)
    \/ WaitPoll(c)
    \/ WaitReturn(c)
    \/ ReadReturn(c)

\* the steps of drop once it has begun
DropProgress ==
    \/ DropNotifyAll
    \/ DropLock
    \/ DropDrainNext
    \/ DropJoin
    \/ DropActiveWait

\* Threads are scheduled: a thread that can take its next step takes it, a
\* started call runs on, and the 10 s of a wait_timeout elapse.  Nothing
\* obliges a client to start a call or to drop the pool.  A weak exchange
\* does not fail spuriously for ever.
FairSpec ==
    /\ Init
    /\ [][NextFair]_vars
    /\ \A w \in WorkerIds : WF_vars(WorkerStep(w))
    /\ \A c \in Clients : WF_vars(ClientProgress(c))
    /\ \A c \in Clients : SF_vars(SpawnCasOk(c))
    /\ WF_vars(DropProgress)

\* ------------------------------------------------ link_list.rs: actions
\* addresses the allocator can hand out
FreeAddr == {a \in Addr : ~mem[a].live}

\* the list can be called: it is alive and nothing borrows or owns it
Usable ==
    /\ ~dropped
    /\ ~cursor.live
    /\ iter.kind = "none"
    /\ lop # "compare"

\* the heap's release counts after the Box at address a has been dropped
Release(rel, a) == IF a = Null THEN rel ELSE [rel EXCEPT ![a] = @ + 1]

\* the heap's release counts after the Boxes at the addresses of the
\* sequence as have been dropped
ReleaseAll(rel, as) ==
    [a \in Addr |-> rel[a] + Cardinality({i \in DOMAIN as : as[i] = a})]

\* the reference: push at the front of a sequence
deque_push_front(d, e) == <<e>> \o d

\* the reference: push at the back of a sequence
deque_push_back(d, e) == Append(d, e)

\* the reference: pop at the front, <<rest, Option returned>>
deque_pop_front(d) ==
    IF d = <<>> THEN <<d, NoElem>> ELSE <<Tail(d), Head(d)>>

\* the reference: pop at the back, <<rest, Option returned>>
deque_pop_back(d) ==
    IF d = <<>> THEN <<d, NoElem>> ELSE <<SubSeq(d, 1, Len(d) - 1), d[Len(d)]>>

\* list.push_front(e); Box::new returns any free address
PushFront(e) ==
    /\ Usable
    /\ pushes + pops < MaxOps
    /\ \E n \in FreeAddr :
           LET r == list_push_front(list, mem, n, e)
           IN  /\ list' = r.list
               /\ mem' = r.mem
               /\ allocated' = [allocated EXCEPT ![n] = @ + 1]
    /\ deque' = deque_push_front(deque, e)
    /\ pushes' = pushes + 1
    /\ lop' = "push_front"
    /\ UNCHANGED <<cursor, result, expected, pops, moves, pvars>>
    /\ UNCHANGED <<released, dropped, iter, ihist, other, cmpres>>

\* list.push_back(e)
PushBack(e) ==
    /\ Usable
    /\ pushes + pops < MaxOps
    /\ \E n \in FreeAddr :
           LET r == list_push_back(list, mem, n, e)
           IN  /\ list' = r.list
               /\ mem' = r.mem
               /\ allocated' = [allocated EXCEPT ![n] = @ + 1]
    /\ deque' = deque_push_back(deque, e)
    /\ pushes' = pushes + 1
    /\ lop' = "push_back"
    /\ UNCHANGED <<cursor, result, expected, pops, moves, pvars>>
    /\ UNCHANGED <<released, dropped, iter, ihist, other, cmpres>>

\* list.pop_front(), on an empty list as well
PopFront ==
    /\ Usable
    /\ pushes + pops < MaxOps
    /\ LET r == list_pop_front(list, mem)
       IN  /\ list' = r.list
           /\ mem' = r.mem
           /\ result' = r.result
           /\ pops' = IF r.result # NoElem THEN pops + 1 ELSE pops
           /\ released' = Release(released, r.freed)
    /\ deque' = deque_pop_front(deque)[1]
    /\ expected' = deque_pop_front(deque)[2]
    /\ lop' = "pop_front"
    /\ UNCHANGED <<cursor, pushes, moves, pvars>>
    /\ UNCHANGED <<allocated, dropped, iter, ihist, other, cmpres>>

\* list.pop_back(), on an empty list as well
PopBack ==
    /\ Usable
    /\ pushes + pops < MaxOps
    /\ LET r == list_pop_back(list, mem)
       IN  /\ list' = r.list
           /\ mem' = r.mem
           /\ result' = r.result
           /\ pops' = IF r.result # NoElem THEN pops + 1 ELSE pops
           /\ released' = Release(released, r.freed)
    /\ deque' = deque_pop_back(deque)[1]
    /\ expected' = deque_pop_back(deque)[2]
    /\ lop' = "pop_back"
    /\ UNCHANGED <<cursor, pushes, moves, pvars>>
    /\ UNCHANGED <<allocated, dropped, iter, ihist, other, cmpres>>

\* list.clear(), on an empty list as well
Clear ==
    /\ Usable
    /\ pushes + pops < MaxOps
    /\ LET r == list_clear(list, mem)
       IN  /\ list' = r.list
           /\ mem' = r.mem
           /\ released' = ReleaseAll(released, r.freed)
           /\ pops' = pops + Len(r.freed)
    /\ deque' = <<>>
    /\ lop' = "clear"
    /\ UNCHANGED <<cursor, result, expected, pushes, moves, pvars>>
    /\ UNCHANGED <<allocated, dropped, iter, ihist, other, cmpres>>

\* the lists the second operand of a comparison is drawn from
Lists == UNION {[1..n -> Elems] : n \in 0..MaxNodes}

\* list == b, list.cmp(&b), list.partial_cmp(&b) and list.hash(..) for any
\* second list b
Compare ==
    /\ Usable
    /\ \E b \in Lists :
           LET a == iter_elems(mem, list.front, list.len)
           IN  /\ other' = b
               /\ cmpres' = [eq |-> eq(a, b),
                             cmp |-> cmp(a, b),
                             partial_cmp |-> partial_cmp(a, b),
                             hash |-> hash(a)]
    /\ lop' = "compare"
    /\ UNCHANGED <<list, mem, cursor, deque, result, expected, pushes, pops,
                   moves, pvars>>
    /\ UNCHANGED <<allocated, released, dropped, iter, ihist>>

\* the results have been used and the second list goes out of scope
CompareEnd ==
    /\ lop = "compare"
    /\ other' = <<>>
    /\ cmpres' = NoCmp
    /\ lop' = "compare_end"
    /\ UNCHANGED <<list, mem, cursor, deque, result, expected, pushes, pops,
                   moves, pvars>>
    /\ UNCHANGED <<allocated, released, dropped, iter, ihist>>

\* list.iter(): the iterator borrows the list until it is dropped
IterNew ==
    /\ Usable
    /\ iter' = iter_new(list)
    /\ ihist' = [NoYield EXCEPT !.start = iter_elems(mem, list.front, list.len)]
    /\ lop' = "iter"
    /\ UNCHANGED <<list, mem, cursor, deque, result, expected, pushes, pops,
                   moves, pvars>>
    /\ UNCHANGED <<allocated, released, dropped, other, cmpres>>

\* list.into_iter(): the iterator owns the list from now on
IntoIterNew ==
    /\ Usable
    /\ iter' = into_iter
    /\ ihist' = [NoYield EXCEPT !.start = iter_elems(mem, list.front, list.len)]
    /\ lop' = "into_iter"
    /\ UNCHANGED <<list, mem, cursor, deque, result, expected, pushes, pops,
                   moves, pvars>>
    /\ UNCHANGED <<allocated, released, dropped, other, cmpres>>

\* the record of the iterator's calls after one that returned res: at the
\* front if atFront, at the back otherwise
Yielded(h, res, atFront) ==
    [h EXCEPT !.fwd = IF res # NoElem /\ atFront THEN Append(@, res) ELSE @,
              !.bwd = IF res # NoElem /\ ~atFront THEN Append(@, res) ELSE @,
              !.res = res,
              !.before = Len(h.fwd) + Len(h.bwd),
              !.nones = IF res = NoElem THEN @ + 1 ELSE @]

\* it.next() on an Iter, up to two calls that return None
IterNext ==
    /\ iter.kind = "iter"
    /\ ihist.nones < 2
    /\ LET r == iter_next(iter, mem)
       IN  /\ iter' = r.iter
           /\ ihist' = Yielded(ihist, r.result, TRUE)
    /\ lop' = "next"
    /\ UNCHANGED <<list, mem, cursor, deque, result, expected, pushes, pops,
                   moves, pvars>>
    /\ UNCHANGED <<allocated, released, dropped, other, cmpres>>

\* it.next_back() on an Iter
IterNextBack ==
    /\ iter.kind = "iter"
    /\ ihist.nones < 2
    /\ LET r == iter_next_back(iter, mem)
       IN  /\ iter' = r.iter
           /\ ihist' = Yielded(ihist, r.result, FALSE)
    /\ lop' = "next_back"
    /\ UNCHANGED <<list, mem, cursor, deque, result, expected, pushes, pops,
                   moves, pvars>>
    /\ UNCHANGED <<allocated, released, dropped, other, cmpres>>

\* it.next() on an IntoIter: self.list.pop_front()
IntoIterNext ==
    /\ iter.kind = "into_iter"
    /\ ihist.nones < 2
    /\ LET r == list_pop_front(list, mem)
       IN  /\ list' = r.list
           /\ mem' = r.mem
           /\ result' = r.result
           /\ pops' = IF r.result # NoElem THEN pops + 1 ELSE pops
           /\ released' = Release(released, r.freed)
           /\ ihist' = Yielded(ihist, r.result, TRUE)
    /\ deque' = deque_pop_front(deque)[1]
    /\ expected' = deque_pop_front(deque)[2]
    /\ lop' = "next"
    /\ UNCHANGED <<cursor, pushes, moves, pvars>>
    /\ UNCHANGED <<allocated, dropped, iter, other, cmpres>>

\* it.next_back() on an IntoIter: self.list.pop_back()
IntoIterNextBack ==
    /\ iter.kind = "into_iter"
    /\ ihist.nones < 2
    /\ LET r == list_pop_back(list, mem)
       IN  /\ list' = r.list
           /\ mem' = r.mem
           /\ result' = r.result
           /\ pops' = IF r.result # NoElem THEN pops + 1 ELSE pops
           /\ released' = Release(released, r.freed)
           /\ ihist' = Yielded(ihist, r.result, FALSE)
    /\ deque' = deque_pop_back(deque)[1]
    /\ expected' = deque_pop_back(deque)[2]
    /\ lop' = "next_back"
    /\ UNCHANGED <<cursor, pushes, moves, pvars>>
    /\ UNCHANGED <<allocated, dropped, iter, other, cmpres>>

\* the Iter is dropped and the borrow ends
IterEnd ==
    /\ iter.kind = "iter"
    /\ iter' = NoIter
    /\ ihist' = NoYield
    /\ lop' = "iter_end"
    /\ UNCHANGED <<list, mem, cursor, deque, result, expected, pushes, pops,
                   moves, pvars>>
    /\ UNCHANGED <<allocated, released, dropped, other, cmpres>>

\* the list is dropped with whatever it holds, by its owner or with the
\* IntoIter that owns it
ListDrop ==
    /\ Usable \/ iter.kind = "into_iter"
    /\ LET r == list_drop(list, mem)
       IN  /\ list' = r.list
           /\ mem' = r.mem
           /\ released' = ReleaseAll(released, r.freed)
           /\ pops' = pops + Len(r.freed)
    /\ deque' = <<>>
    /\ dropped' = TRUE
    /\ iter' = NoIter
    /\ ihist' = NoYield
    /\ lop' = "drop"
    /\ UNCHANGED <<cursor, result, expected, pushes, moves, pvars>>
    /\ UNCHANGED <<allocated, other, cmpres>>

\* list.cursor_mut(): the cursor borrows the list until it is dropped
CursorMut ==
    /\ Usable
    /\ cursor' = cursor_mut
    /\ moves' = 0
    /\ lop' = "cursor_mut"
    /\ UNCHANGED <<list, mem, deque, result, expected, pushes, pops, pvars>>
    /\ UNCHANGED lext

\* cursor.move_next(); the calls are counted up to two past the back of the
\* list
MoveNext ==
    /\ cursor.live
    /\ cursor' = move_next(cursor, list, mem)
    /\ moves' = IF moves = Absent \/ moves >= len(list) + 2
                THEN Absent
                ELSE moves + 1
    /\ lop' = "move_next"
    /\ UNCHANGED <<list, mem, deque, result, expected, pushes, pops, pvars>>
    /\ UNCHANGED lext

\* cursor.move_prev(); the cursor is no longer one moved by move_next only
MovePrev ==
    /\ cursor.live
    /\ cursor' = move_prev(cursor, list, mem)
    /\ moves' = Absent
    /\ lop' = "move_prev"
    /\ UNCHANGED <<list, mem, deque, result, expected, pushes, pops, pvars>>
    /\ UNCHANGED lext

\* the cursor is dropped and the borrow ends
CursorEnd ==
    /\ cursor.live
    /\ cursor' = NoCursor
    /\ moves' = 0
    /\ lop' = "cursor_end"
    /\ UNCHANGED <<list, mem, deque, result, expected, pushes, pops, pvars>>
    /\ UNCHANGED lext

ListNext ==
    \/ \E e \in Elems : PushFront(e)
    \/ \E e \in Elems : PushBack(e)
    \/ PopFront
    \/ PopBack
    \/ Clear
    \/ Compare
    \/ CompareEnd
    \/ IterNew
    \/ IntoIterNew
    \/ IterNext
    \/ IterNextBack
    \/ IntoIterNext
    \/ IntoIterNextBack
    \/ IterEnd
    \/ ListDrop
    \/ CursorMut
    \/ MoveNext
    \/ MovePrev
    \/ CursorEnd

\* one list, from LinkedList::new(), driven through its operations
ListSpec == Init /\ [][ListNext]_vars

\* -------------------------------------------------------------- sanity
\* the usize counters never wrap: every fetch_sub finds a positive value
TypeOK ==
    /\ current_threads \in Nat
    /\ idle_threads \in Nat
    /\ active_tasks \in Nat
    /\ submitted_tasks \in 0..MaxTasks
    /\ completed_tasks \in 0..MaxTasks
    /\ next_thread_id \in 0..MaxTasks
    /\ qlock \in WorkerIds \cup {Free}
    /\ threads \subseteq WorkerIds

\* -------------------------------------------------------------- claims
\* worker threads that exist: spawned and not yet ended
LiveWorkers == {w \in WorkerIds : wpc[w] \notin {"none", "done", "panicked"}}

\* live workers that have not yet given their slot of current_threads back
InLoop ==
    {w \in LiveWorkers :
        wpc[w] \notin {"t_remove", "t_ret", "q_remove", "q_ret", "ending"}}

\* tasks sitting in the queue
Queued == {tasks[i] : i \in 1..Len(tasks)}

\* C1 as stated: current_threads never exceeds max_threads, and the number
\* of live worker threads never exceeds max_threads.  Refuted: a retiring
\* worker gives its slot back before it ends, and a submit may start its
\* replacement while it is still alive.
C1_LiveWorkersWithinCap ==
    /\ current_threads <= max_threads
    /\ Cardinality(LiveWorkers) <= max_threads

\* C1 amended: current_threads never exceeds max_threads, and the number of
\* live workers that have not yet decremented current_threads for their
\* retirement never exceeds max_threads.
C1_CurrentThreadsWithinCap ==
    /\ current_threads <= max_threads
    /\ Cardinality(InLoop) <= max_threads

\* C1 witness: the pool is full while one submitter is about to read
\* current_threads and another has reserved a slot and not yet spawned
C1_Witness ==
    /\ max_threads >= 1
    /\ current_threads = max_threads
    /\ \E c, d \in Clients : cpc[c] = "s_load" /\ cpc[d] = "s_id"

\* C2: when wait_for_completion has returned, every task whose submit had
\* returned before the wait started has finished executing (stated for runs
\* in which no task panics).
C2_WaitCoversReturnedSubmits ==
    \A c \in Clients :
        (cpc[c] = "w_ret" /\ ~anyPanic) => wsnap[c] \subseteq finished

\* C3: on a pool that is not shut down, every task in the queue is eventually
\* executed (no task panics; timeouts may fire at any moment; clients need
\* not submit again).
C3_QueuedTaskEventuallyRuns ==
    \A t \in TaskIds :
        (max_threads >= 1 /\ t \in Queued) ~> (t \in finished \/ quit)

\* C4: when drop has returned, the queue is empty and every submitted task
\* has been executed to completion (stated for runs in which no task panics).
C4_DropDrainsQueue ==
    (life = "d_done" /\ ~anyPanic /\ max_threads >= 1) =>
        /\ tasks = <<>>
        /\ completed_tasks = nextTask
        /\ finished = 1..nextTask

\* C5: no handle is joined twice, drop does not panic, and once drop has
\* passed the join loop every handle that was in the registry when drop
\* locked it has been joined and the registry is empty.
C5_EveryHandleJoinedOnce ==
    /\ \A w \in WorkerIds : joins[w] <= 1
    /\ life # "d_panic"
    /\ life \in {"d_active", "d_done"} =>
          /\ threads = {}
          /\ \A w \in regAtDrop : joins[w] = 1

\* C6: teardown terminates: once drop has set quit it returns (no task
\* panics, threads are scheduled and idle timeouts fire).
C6_DropTerminates == (life = "d_notify") ~> (life = "d_done")

\* C6 witness: drop has returned after joining a worker that had not removed
\* its own registry entry
C6_Witness ==
    /\ life = "d_done"
    /\ \E w \in WorkerIds : joins[w] = 1
    /\ ~anyPanic

\* C7: completed_tasks <= submitted_tasks in every reachable state.
C7_CompletedLeSubmitted == completed_tasks <= submitted_tasks

\* C8: idle_threads <= current_threads in every reachable state, the steps
\* of worker start-up and of both retirements included.
C8_IdleLeCurrent == idle_threads <= current_threads

\* C8 witness: a worker in its timeout retirement has decremented
\* idle_threads and not yet current_threads, another is idle
C8_Witness ==
    /\ \E w \in WorkerIds : wpc[w] = "t_cur_dec"
    /\ idle_threads >= 1
    /\ idle_threads < current_threads

\* C9: tasks are popped in the order in which they were pushed (task ids
\* number the pushes).
C9_Fifo == popped = [i \in 1..Len(popped) |-> i]

\* C9 witness: two workers hold the two tasks they popped, in push order
C9_Witness ==
    /\ popped = <<1, 2>>
    /\ \E w, v \in WorkerIds : w # v /\ wtask[w] = 1 /\ wtask[v] = 2

\* C10: no pool with max_threads = 0 is ever created, and a failed
\* construction creates no thread.
C10_ZeroCapRejected ==
    /\ life \notin {"unbuilt", "ctor_panic"} => max_threads > 0
    /\ life = "ctor_panic" => \A w \in WorkerIds : wpc[w] = "none"

\* ------------------------------------------------------------------ C11
\* C11: a task that panics does not end the worker that ran it: no worker is
\* ever lost to a panic, and active_tasks counts exactly the workers that are
\* between active_tasks.fetch_add and active_tasks.fetch_sub.
C11_PanicKeepsWorker ==
    /\ \A w \in WorkerIds : wpc[w] # "panicked"
    /\ active_tasks =
           Cardinality({w \in WorkerIds : wpc[w] \in {"run", "act_dec"}})

\* ------------------------------------------------------------------ C12
\* workers that took a slot of current_threads and have not given it back
\* (a worker ended by a panic never gives it back)
Holding == {w \in WorkerIds : wpc[w] \notin {"none", "t_remove", "t_ret",
                                             "q_remove", "q_ret", "ending",
                                             "done"}}

\* clients between the successful exchange and thread::spawn
Reserving == {c \in Clients : cpc[c] \in {"s_id", "s_spawn"}}

\* C12: a slot reserved by the exchange is released when thread::spawn fails:
\* current_threads always equals the workers holding a slot plus the
\* reservations whose thread::spawn is still to come.
C12_FailedSpawnReleasesSlot ==
    current_threads = Cardinality(Holding) + Cardinality(Reserving)

\* ------------------------------------------------------------------ C13
\* the idle timeouts fire: a worker that waits again and again is not woken
\* spuriously every time before the 10 s of its wait_timeout have elapsed
TimeoutSpec ==
    /\ FairSpec
    /\ \A w \in WorkerIds : SF_vars(WorkerTimeout(w))

\* no client is inside submit
NoSubmit ==
    \A c \in Clients :
        cpc[c] \in {"idle", "w_poll", "w_ret", "n_ret", "m_ret"}

\* C13: scale-down.  If from some point on no task is submitted (and no task
\* panics, the idle timeouts firing), current_threads eventually is 0 and
\* stays 0.
C13_ScaleDown == (<>[]NoSubmit) => <>[](current_threads = 0)

\* ------------------------------------------------------------------ C14
\* C14: wait_for_completion returns only when completed_tasks has reached the
\* submitted_tasks it read at the start of the call, and whenever
\* completed_tasks has reached that value the call can return at once,
\* whatever has been submitted since (also with a target of 0).
C14_WaitReturnsAtSnapshot ==
    \A c \in Clients :
        /\ cpc[c] = "w_ret" => completed_tasks >= ctarget[c]
        /\ (cpc[c] = "w_poll" /\ completed_tasks >= ctarget[c])
               => ENABLED WaitPoll(c)

\* a wait with a target of 1 has returned while a task submitted after its
\* snapshot is not completed
C14_Witness ==
    \E c \in Clients :
        /\ cpc[c] = "w_ret"
        /\ ctarget[c] = 1
        /\ submitted_tasks = 2
        /\ completed_tasks = 1

\* ------------------------------------------------------------------ C15
\* the elements met by following the back links of m from address a, for at
\* most n nodes
RECURSIVE Walk(_, _, _)
Walk(m, a, n) ==
    IF a = Null \/ n = 0
    THEN <<>>
    ELSE <<m[a].elem>> \o Walk(m, m[a].back, n - 1)

\* the elements of the list, front first
Contents == Walk(mem, list.front, MaxNodes + 1)

\* C15: after any sequence of push_front, push_back, pop_front and pop_back,
\* len() is the pushes minus the successful pops, the last pop returned what
\* the reference double-ended sequence returned (None on an empty list, which
\* it leaves as it was), and the list holds the reference's elements in the
\* reference's order.
C15_ListRefinesDeque ==
    /\ len(list) = pushes - pops
    /\ result = expected
    /\ Contents = deque
    /\ len(list) = Len(deque)

\* after three pushes a pop_back has returned an element as the second
\* successful pop, and one element remains
C15_Witness ==
    /\ lop = "pop_back"
    /\ result # NoElem
    /\ pushes = 3
    /\ pops = 2
    /\ len(list) = 1

\* ------------------------------------------------------------------ C16
\* C16 as stated: on a list of any length n, 0 included, a fresh cursor has
\* no index after n + 1 calls of move_next, and after one more call its index
\* is 0 and current is the front element.  Refuted for n = 0: the cursor of
\* an empty list never gets an index.
C16_CursorWrapsOnAnyList ==
    cursor.live =>
        /\ moves = len(list) + 1 => index(cursor) = Absent
        /\ moves = len(list) + 2 =>
               /\ index(cursor) = 0
               /\ current(cursor, mem) = front(list, mem)

\* C16: on a list of length n, a fresh cursor has no index and no current
\* element after n + 1 calls of move_next; after one more call its index is 0
\* and current is the front element if n >= 1, and on the empty list the
\* index is still absent and current is None.
C16_CursorWraps ==
    cursor.live =>
        /\ moves = len(list) + 1 =>
               /\ index(cursor) = Absent
               /\ current(cursor, mem) = NoElem
        /\ (moves = len(list) + 2 /\ len(list) >= 1) =>
               /\ index(cursor) = 0
               /\ current(cursor, mem) = front(list, mem)
               /\ current(cursor, mem) = Head(deque)
        /\ (moves = len(list) + 2 /\ len(list) = 0) =>
               /\ index(cursor) = Absent
               /\ current(cursor, mem) = NoElem

\* a cursor over a list of two elements has gone past the back and is on
\* the front element again
C16_Witness ==
    /\ cursor.live
    /\ len(list) = 2
    /\ moves = 4
    /\ index(cursor) = 0
    /\ current(cursor, mem) = Head(deque)

\* ------------------------------------------------------------------ C17
\* C17: a worker retires on its idle timeout only if the queue is empty: while
\* quit is unset, a worker that is on the timed-out return path (it holds the
\* queue lock until it returns) never has a task queued behind it.
C17_TimeoutRetiresOnEmptyQueue ==
    \A w \in WorkerIds :
        (wpc[w] \in {"t_idle_dec", "t_cur_dec", "t_remove", "t_ret"} /\ ~quit)
            => tasks = <<>>

\* ------------------------------------------------------------------ C18
\* C18 as stated: once quit is set no worker takes another task from the
\* queue, and only tasks popped before quit are run.  Refuted: a worker
\* leaves on quit only if the queue is empty, and pops otherwise.
C18_NoDequeueAfterQuit == lateTasks = {}

\* C18: once quit is set, a worker retires because of quit only when it finds
\* the queue empty under the lock, so workers go on taking tasks until the
\* queue is empty; every task popped, before or after quit was set, has been
\* run when drop returns (no task panicking).
C18_QuitDrainsQueue ==
    /\ \A w \in WorkerIds :
           wpc[w] \in {"q_cur_dec", "q_remove", "q_ret"} =>
               (quit /\ tasks = <<>>)
    /\ lateTasks # {} => quit
    /\ (life = "d_done" /\ ~anyPanic) =>
           {popped[i] : i \in 1..Len(popped)} \subseteq finished

\* drop has returned, and a task that was popped after quit was set has run
C18_Witness ==
    /\ life = "d_done"
    /\ lateTasks # {}
    /\ lateTasks \subseteq finished

\* ------------------------------------------------------------------ C19
\* the steps of a worker none of whose waits times out or wakes spuriously
WorkerStepNoTimeout(w) ==
    \/ WorkerLock(w)
    \/ WorkerIdleInc(w)
    \/ WorkerCheck(w)
    \/ WorkerWait(w)
    \/ WorkerRelock(w)
    \/ WorkerIdleDec(w)
    \/ WorkerCheckQuit(w)
    \/ WorkerQuitCurDec(w)
    \/ WorkerQuitRemove(w)
    \/ WorkerQuitReturn(w)
    \/ WorkerEnd(w)
    \/ WorkerPop(w)
    \/ WorkerActiveInc(w)
    \/ WorkerRun(w)
    \/ WorkerActiveDec(w)
    \/ WorkerCompleted(w)

\* the steps of a run in which no task panics and no wait_timeout ends by
\* itself: a blocked worker goes on only when it is notified
NextNoTimeout ==
    \/ Construct
    \/ \E c \in Clients : ClientStep(c)
    \/ \E w \in WorkerIds : WorkerStepNoTimeout(w)
    \/ DropStep

\* threads are scheduled as in FairSpec, but no wait times out
NoTimeoutSpec ==
    /\ Init
    /\ [][NextNoTimeout]_vars
    /\ \A w \in WorkerIds : WF_vars(WorkerStepNoTimeout(w))
    /\ \A c \in Clients : WF_vars(ClientProgress(c))
    /\ \A c \in Clients : SF_vars(SpawnCasOk(c))
    /\ WF_vars(DropProgress)

\* C19: once drop has stored quit and issued notify_all, every worker sees
\* quit and retires without a timeout: drop returns even if no wait ever
\* times out.
C19_QuitWakesEveryWorker == (life = "d_lock") ~> (life = "d_done")

\* ------------------------------------------------------------------ C20
\* workers ever created by thread::spawn
Created == {w \in WorkerIds : wpc[w] # "none"}

\* clients between thread::spawn and the insert into the registry
Inserting == {c \in Clients : cpc[c] = "s_insert"}

\* C20 as stated: every successful exchange is followed by the creation of
\* one worker and the insert of one registry entry, so the workers ever
\* created are as many as the successful exchanges (those still on their way
\* to thread::spawn apart).  Refuted: thread::spawn can fail after the
\* exchange.
C20_EveryReservationSpawns ==
    /\ reserved = Cardinality(Created) + Cardinality(Reserving)
    /\ inserted = Cardinality(Created) - Cardinality(Inserting)

\* C20: every successful exchange is followed by one call of thread::spawn,
\* which creates one worker, whose handle is inserted once, or is refused and
\* creates nothing; nothing else creates a worker or inserts a handle.  The
\* successful exchanges are as many as the workers created, the refused
\* spawns and the calls still on their way to thread::spawn together.
C20_ReservationsAccounted ==
    /\ reserved = Cardinality(Created) + spawnFailed + Cardinality(Reserving)
    /\ inserted = Cardinality(Created) - Cardinality(Inserting)
    /\ \A c \in Inserting : ctid[c] \in Created /\ ctid[c] \notin threads
    /\ threads \subseteq Created

\* two exchanges have succeeded: one thread::spawn was refused, the other
\* created a worker whose handle has been inserted
C20_Witness ==
    /\ reserved = 2
    /\ spawnFailed = 1
    /\ Cardinality(Created) = 1
    /\ inserted = 1

\* ------------------------------------------------------------------ C21
\* what the growth of the pool consists of: the counter, the ids, the
\* registry, the worker threads
growth == <<current_threads, next_thread_id, threads, reserved, inserted>>

\* the step of client c is a step of a submit call that does not enter
\* try_spawn_thread
SubmitStep(c) ==
    \/ cpc[c] = "idle" /\ cpc'[c] = "s_inc"
    \/ cpc[c] = "s_inc" /\ cpc'[c] = "s_notify"
    \/ cpc[c] = "s_notify" /\ cpc'[c] = "s_idle"
    \/ cpc[c] = "s_idle" /\ cpc'[c] = "idle"

\* the step of client c is a step of threads_num or get_max_threads
ReadStep(c) ==
    \/ cpc[c] = "idle" /\ cpc'[c] \in {"n_ret", "m_ret"}
    \/ cpc[c] \in {"n_ret", "m_ret"} /\ cpc'[c] = "idle"

\* C21: a submit that reads idle_threads > 0 returns at once: it creates no
\* worker and changes neither current_threads nor next_thread_id nor the
\* registry; what a submit does before that read is one push_back, one
\* increment of submitted_tasks and one notify_one (at most one waiter is
\* woken).  threads_num and get_max_threads change nothing of the pool and
\* return current_threads and max_threads.
C21_SubmitAndReadsFrame ==
    [][\A c \in Clients :
        /\ (cpc[c] = "s_idle" /\ idle_threads > 0 /\ cpc'[c] # "s_idle")
               => cpc'[c] = "idle"
        /\ SubmitStep(c) =>
               /\ UNCHANGED <<growth, idle_threads, active_tasks,
                              completed_tasks, quit, max_threads, wtask>>
               /\ Created' = Created
               /\ IF cpc[c] = "idle"
                  THEN Len(tasks') = Len(tasks) + 1
                  ELSE tasks' = tasks
               /\ IF cpc[c] = "s_inc"
                  THEN submitted_tasks' = submitted_tasks + 1
                  ELSE submitted_tasks' = submitted_tasks
               /\ IF cpc[c] = "s_notify"
                  THEN Cardinality({w \in WorkerIds : wpc'[w] # wpc[w]}) <= 1
                  ELSE wpc' = wpc
        /\ ReadStep(c) =>
               /\ UNCHANGED <<pool, counters, wlocals, dcur>>
               /\ cpc'[c] = "n_ret" => cgot'[c] = current_threads
               /\ cpc'[c] = "m_ret" => cgot'[c] = max_threads
      ]_vars

\* with room for two workers, two submits have returned and only one worker
\* was ever reserved: the other submit found a worker idle
C21_Witness ==
    /\ life = "alive"
    /\ max_threads = 2
    /\ Cardinality(returned) = 2
    /\ reserved = 1
    /\ \A c \in Clients : cpc[c] = "idle"

\* ------------------------------------------------------------------ C22
\* clients inside spawn_thread that hold a thread_id
Spawning == {c \in Clients : cpc[c] \in {"s_spawn", "s_insert"}}

\* C22: worker ids are unique and handed out in increasing order: every id
\* drawn so far is below next_thread_id, the next to be drawn; no two
\* spawn_thread calls hold the same id, a call about to create its thread
\* holds an id no worker has, and a call about to insert its handle holds an
\* id the registry does not contain, so that no insert overwrites a handle.
C22_UniqueIds ==
    /\ \A c \in Spawning : ctid[c] < next_thread_id
    /\ \A w \in Created : w < next_thread_id
    /\ \A c, d \in Spawning : c # d => ctid[c] # ctid[d]
    /\ \A c \in Clients : cpc[c] = "s_spawn" => ctid[c] \notin Created
    /\ \A c \in Clients : cpc[c] = "s_insert" => ctid[c] \notin threads

\* two concurrent submit calls are inside spawn_thread with different ids
C22_Witness ==
    /\ Cardinality(Spawning) = 2
    /\ \E c, d \in Spawning : ctid[c] < ctid[d]

\* ------------------------------------------------------------------ C23
\* tasks that have been taken from the queue
Popped == {popped[i] : i \in 1..Len(popped)}

\* C23: every task is dequeued by at most one worker and run at most once:
\* no task was popped twice, a popped task is no longer queued, no two
\* workers hold the same task, and a worker about to run a task holds one
\* that was popped and has not run yet.
C23_TaskRunsAtMostOnce ==
    /\ \A i, j \in 1..Len(popped) : i # j => popped[i] # popped[j]
    /\ Popped \cap Queued = {}
    /\ \A v, w \in WorkerIds :
           (v # w /\ wtask[v] # 0) => wtask[v] # wtask[w]
    /\ \A w \in WorkerIds :
           wpc[w] \in {"act_inc", "run"} =>
               (wtask[w] \in Popped /\ wtask[w] \notin finished)
    /\ finished \subseteq Popped

\* two workers are running two different tasks at the same time
C23_Witness ==
    \E v, w \in WorkerIds :
        /\ v # w
        /\ wpc[v] = "run"
        /\ wpc[w] = "run"
        /\ wtask[v] # wtask[w]

\* ------------------------------------------------------------------ C24
\* C24: when drop has returned and no task has panicked, nothing is left
\* over: no task is running, the counters of active tasks, idle threads and
\* current threads are 0, every worker thread has ended, and the registry is
\* empty.
C24_NothingLeftAfterDrop ==
    (life = "d_done" /\ ~anyPanic) =>
        /\ active_tasks = 0
        /\ idle_threads = 0
        /\ current_threads = 0
        /\ LiveWorkers = {}
        /\ threads = {}


\* ------------------------------------------------------------------ C25
\* C25: the quit flag is one-way and the task counters are monotone: no step
\* takes quit from TRUE back to FALSE, and no step lowers submitted_tasks or
\* completed_tasks.
C25_QuitOneWayCountersMonotone ==
    [][/\ quit => quit'
       /\ submitted_tasks' >= submitted_tasks
       /\ completed_tasks' >= completed_tasks]_vars

\* quit has been set after a task was submitted and counted as completed
C25_Witness ==
    /\ quit
    /\ submitted_tasks >= 1
    /\ completed_tasks >= 1


\* ------------------------------------------------------------------ C26
\* the addresses met by following the back links (towards the back of the
\* list) of m from address a, for at most n nodes
RECURSIVE NextLinks(_, _, _)
NextLinks(m, a, n) ==
    IF a = Null \/ n = 0
    THEN <<>>
    ELSE <<a>> \o NextLinks(m, m[a].back, n - 1)

\* the addresses met by following the front links (towards the front of the
\* list) of m from address a, for at most n nodes
RECURSIVE PrevLinks(_, _, _)
PrevLinks(m, a, n) ==
    IF a = Null \/ n = 0
    THEN <<>>
    ELSE <<a>> \o PrevLinks(m, m[a].front, n - 1)

\* the nodes of the list from its front, and from its back
Forward == NextLinks(mem, list.front, MaxNodes + 1)
Backward == PrevLinks(mem, list.back, MaxNodes + 1)

\* C26: after any sequence of pushes, pops and clears, front and back are
\* both absent exactly when len is 0, the walk from front along the next links
\* visits exactly len nodes and ends at back, the walk from back along the
\* previous links visits exactly len nodes and ends at front, and the two
\* walks visit the same nodes in opposite orders.
C26_LinksWellFormed ==
    /\ (list.front = Null /\ list.back = Null) <=> (len(list) = 0)
    /\ (list.front = Null) <=> (list.back = Null)
    /\ Len(Forward) = len(list)
    /\ Len(Backward) = len(list)
    /\ len(list) > 0 =>
           /\ Forward[len(list)] = list.back
           /\ Backward[len(list)] = list.front
    /\ \A i \in 1..len(list) : Backward[i] = Forward[len(list) + 1 - i]
    /\ \A i \in 1..len(list) : mem[Forward[i]].live

\* a list of two different elements, built after two nodes had been removed,
\* one of its nodes at an address that had been released before
C26_Witness ==
    /\ len(list) = 2
    /\ pops >= 2
    /\ \E a \in Addr : released[a] >= 1 /\ mem[a].live
    /\ lop \in {"push_front", "push_back"}
    /\ front(list, mem) # mem[list.back].elem


\* ------------------------------------------------------------------ C27
\* the length of the longest common prefix of two sequences
CommonPrefix(a, b) ==
    LET same == {k \in 0..Len(a) :
                    k <= Len(b) /\ \A j \in 1..k : a[j] = b[j]}
    IN  CHOOSE k \in same : \A j \in same : j <= k

\* the order of two sequences by their first different elements, the shorter
\* first if one is the beginning of the other
Lexicographic(a, b) ==
    LET k == CommonPrefix(a, b)
    IN  IF k < Len(a) /\ k < Len(b)
        THEN (IF a[k + 1] < b[k + 1] THEN "Less" ELSE "Greater")
        ELSE IF Len(a) < Len(b)
             THEN "Less"
             ELSE IF Len(a) > Len(b) THEN "Greater" ELSE "Equal"

\* C27 as stated: a list shorter than the other orders before it, whatever
\* the elements are; lists of equal length are ordered by their elements,
\* front first; lists are equal if they have the same length and elements.
C27_LengthFirst ==
    lop = "compare" =>
        /\ len(list) < Len(other) => cmpres.cmp = "Less"
        /\ len(list) < Len(other) => cmpres.partial_cmp = "Less"
        /\ len(list) = Len(other) =>
               cmpres.cmp = Lexicographic(Contents, other)
        /\ cmpres.eq <=> (len(list) = Len(other) /\ Contents = other)
        /\ cmpres.hash[1] = len(list)

\* C27: equality and hashing take the length first and the elements, front
\* first, afterwards; cmp and partial_cmp order two lists by the first
\* position at which their elements differ, and by length only if one list is
\* the beginning of the other; lists of equal length are so ordered by their
\* elements alone.
C27_Lexicographic ==
    lop = "compare" =>
        /\ cmpres.cmp = Lexicographic(Contents, other)
        /\ cmpres.partial_cmp = cmpres.cmp
        /\ cmpres.eq <=> (len(list) = Len(other) /\ Contents = other)
        /\ cmpres.eq <=> (cmpres.cmp = "Equal")
        /\ cmpres.hash = <<len(list)>> \o Contents
        /\ (len(list) < Len(other)
              /\ CommonPrefix(Contents, other) = len(list)) =>
               cmpres.cmp = "Less"

\* a list compared with a longer one that begins with a smaller element
C27_Witness ==
    /\ lop = "compare"
    /\ len(list) >= 1
    /\ len(list) < Len(other)
    /\ front(list, mem) > other[1]
    /\ cmpres.cmp = "Greater"


\* ------------------------------------------------------------------ C28
\* C28: for an Iter or an IntoIter over a list of n elements, under any
\* interleaving of next and next_back: next has yielded the first elements of
\* the list in order, next_back the last ones in reverse order, together no
\* more than n (each element at most once, all of them once n were yielded);
\* len() is n minus the number yielded; and a call returns None exactly if n
\* elements had been yielded before it.
C28_IteratorYieldsEachOnce ==
    iter.kind # "none" =>
        LET n == Len(ihist.start)
            y == Len(ihist.fwd) + Len(ihist.bwd)
        IN  /\ y <= n
            /\ ihist.fwd = SubSeq(ihist.start, 1, Len(ihist.fwd))
            /\ \A i \in 1..Len(ihist.bwd) :
                   i <= n /\ ihist.bwd[i] = ihist.start[n + 1 - i]
            /\ iter_len(iter, list) = n - y
            /\ ihist.before # Absent =>
                   ((ihist.res = NoElem) <=> (ihist.before = n))

\* an Iter over three elements that was advanced from both ends until both
\* ends had returned None
C28_Witness ==
    /\ iter.kind = "iter"
    /\ Len(ihist.start) = 3
    /\ Len(ihist.fwd) >= 1
    /\ Len(ihist.bwd) >= 1
    /\ ihist.fwd # ihist.bwd
    /\ ihist.nones = 2


\* ------------------------------------------------------------------ C29
\* the addresses that hold a node
Live == {a \in Addr : mem[a].live}

\* C29: every node allocated by a push is released exactly once, by the pop
\* that returns its element, by clear or by the teardown of the list: no
\* address was released more often than it was allocated, an address holds a
\* node exactly if its last allocation has not been released, the nodes held
\* are the nodes of the list, and after clear or teardown no node is held.
C29_NodesReleasedOnce ==
    /\ \A a \in Addr :
           /\ released[a] <= allocated[a]
           /\ allocated[a] - released[a] = (IF mem[a].live THEN 1 ELSE 0)
    /\ Live = {Forward[i] : i \in DOMAIN Forward}
    /\ Cardinality(Live) = pushes - pops
    /\ (dropped \/ lop = "clear") => (Live = {} /\ allocated = released)

\* a list torn down after three pushes, the last pop before having returned
\* nothing, with every node ever allocated released
C29_Witness ==
    /\ dropped
    /\ pushes = 3
    /\ result = NoElem
    /\ \A a \in Addr : allocated[a] = 1 /\ released[a] = 1


\* ------------------------------------------------------------------ C30
\* C30: no lost wakeup on submit.  If no wait times out, no task panics and
\* max_threads >= 1, every task that submit has pushed is eventually popped
\* by a worker, unless the pool is shut down first.
C30_NoLostWakeup ==
    \A t \in TaskIds :
        (max_threads >= 1 /\ t \in Queued) ~> (t \in Popped \/ quit)


\* ------------------------------------------------------------------ C31
\* workers between active_tasks.fetch_add(1) and active_tasks.fetch_sub(1)
Running == {w \in WorkerIds : wpc[w] \in {"run", "act_dec"}}

\* C31: as long as no task has panicked, active_tasks is the number of
\* workers between their increment and their decrement of it, so that
\* active_tasks <= current_threads <= max_threads and active_tasks never
\* goes below 0.
C31_ActiveTasksCountsRunning ==
    ~anyPanic =>
        /\ active_tasks = Cardinality(Running)
        /\ active_tasks >= 0
        /\ active_tasks <= current_threads
        /\ current_threads <= max_threads

\* a full pool with a task in each of two workers: one inside the closure,
\* the other back from it and about to decrement active_tasks
C31_Witness ==
    /\ ~anyPanic
    /\ active_tasks = 2
    /\ current_threads = max_threads
    /\ \E v, w \in WorkerIds : v # w /\ wpc[v] = "run" /\ wpc[w] = "act_dec"


\* ------------------------------------------------------------------ C32
\* workers that hold a task: popped and not yet counted as completed
Holders == {w \in WorkerIds : wtask[w] # 0}

\* the tasks held by workers
Held == {wtask[w] : w \in Holders}

\* C32: task conservation.  As long as no task has panicked, the number of
\* tasks ever pushed by submit is the queue length plus the number of tasks
\* held by workers plus completed_tasks; every pushed task is in exactly one
\* of the three places and in it once.
C32_TaskConservation ==
    ~anyPanic =>
        /\ nextTask = Len(tasks) + Cardinality(Holders) + completed_tasks
        /\ \A i, j \in 1..Len(tasks) : i # j => tasks[i] # tasks[j]
        /\ \A v, w \in Holders : v # w => wtask[v] # wtask[w]
        /\ Queued \cap Held = {}
        /\ Queued \cup Held \cup finished = 1..nextTask
        /\ Cardinality(finished \ Held) = completed_tasks

\* of two tasks pushed, one has been counted as completed and the other is
\* held by a worker that has run it and not yet counted it
C32_Witness ==
    /\ ~anyPanic
    /\ nextTask = 2
    /\ completed_tasks = 1
    /\ \E w \in Holders : wpc[w] = "comp_inc"

====
